---- MODULE Spec2Model ----
(***************************************************************************)
(* nas-tools: the fix-unsplit-cue command (pair scanner, interactive       *)
(* driver, and the bash split / cleanup functions it shells out to), the   *)
(* download, move-completed and dir-tree commands, as state machines.      *)
(*                                                                         *)
(* A file name is a sequence of tokens whose concatenation is the name:    *)
(* <<"album", ".cue">> is album.cue, <<"album", ".CUE", ".flac">> is       *)
(* album.CUE.flac.  Suffix tests and basename() work on the last token.    *)
(***************************************************************************)
EXTENDS Integers, Sequences, FiniteSets, TLC

VARIABLES
    fs,            \* the filesystem: [ex: dir -> BOOLEAN, files: dir -> set of names]
    fs0,           \* the filesystem as it was when the command started
    readable,      \* dir -> BOOLEAN: readdir on the directory succeeds
    rev,           \* readdir returns entries in reverse byte order (order is unspecified)
    relative,      \* folder_path was given as a relative path (other than ".")
    opts,          \* ScriptOptions: [ignoreFailed, yes]
    pc,            \* position of run() of fix-unsplit-cue
    pairs,         \* result of scanCueAudioPairs
    idx,           \* index of the pair the for-loop of run() is at
    successCount,
    failureCount,
    exitCode,      \* process exit code, -1 while running
    summary,       \* <<>> or <<[success, failure, total]>> once displaySummary ran
    prompts,       \* number of interactive (inquirer) prompts issued
    events,        \* history: per-pair confirmations, split and cleanup invocations
    cancelled,     \* history: the global confirmation was declined
    threw,         \* history: "none", or why run() rejected
    dl,            \* the download command: its options, position and counters
    mv,            \* the move-completed command: its options, folders and counters
    dt             \* the dir-tree command: its options, the tree and the lines printed

fixVars == <<fs, fs0, readable, rev, relative, opts, pc, pairs, idx,
             successCount, failureCount, exitCode, summary, prompts, events,
             cancelled, threw>>

vars == <<fixVars, dl, mv, dt>>

----------------------------------------------------------------------------
(* Bounds *)

\* number of tracks in a cue sheet (files a complete split produces)
NumTracks == 2

----------------------------------------------------------------------------
(* File names *)

EXT_CUE  == ".cue"
EXT_FLAC == ".flac"
EXT_WAV  == ".wav"

TEMP_SPLIT == <<"__temp_split">>

TrackStems == <<"01. t", "02. t", "03. t", "04. t">>

TrackName(i, ext) == <<TrackStems[i], ext>>

\* String.prototype.toLowerCase on the last token of a name
ToLowerCase(tok) ==
    CASE tok = ".CUE"  -> ".cue"
      [] tok = ".FLAC" -> ".flac"
      [] tok = ".WAV"  -> ".wav"
      [] OTHER         -> tok

\* file.toLowerCase().endsWith(ext)
EndsWithLower(file, ext) == Len(file) > 0 /\ ToLowerCase(file[Len(file)]) = ext

isCueFile(file)   == EndsWithLower(file, EXT_CUE)
isFlacFile(file)  == EndsWithLower(file, EXT_FLAC)
isWavFile(file)   == EndsWithLower(file, EXT_WAV)
isAudioFile(file) == isFlacFile(file) \/ isWavFile(file)

\* path.basename(file, ext): the suffix is removed only on an exact
\* (case-sensitive) match
getBasename(file, ext) ==
    IF Len(file) > 0 /\ file[Len(file)] = ext
    THEN SubSeq(file, 1, Len(file) - 1)
    ELSE file

\* All names of the model in byte order (the order of ls, and one of the two
\* orders readdir is modelled to return)
NameOrder ==
    << <<"01. t", ".flac">>, <<"01. t", ".wav">>,
       <<"02. t", ".flac">>, <<"02. t", ".wav">>,
       <<"03. t", ".flac">>, <<"03. t", ".wav">>,
       <<"04. t", ".flac">>, <<"04. t", ".wav">>,
       <<"A">>, <<"B">>, TEMP_SPLIT,
       <<"album", ".CUE">>, <<"album", ".CUE", ".flac">>, <<"album", ".FLAC">>,
       <<"album", ".cue">>, <<"album", ".flac">>, <<"album", ".wav">>,
       <<"b", ".cue">>, <<"b", ".flac">>, <<"notes", ".txt">> >>

Reverse(s) == [i \in 1..Len(s) |-> s[Len(s) + 1 - i]]

\* the members of set S as a sequence in byte order
Sorted(S) == SelectSeq(NameOrder, LAMBDA n : n \in S)

----------------------------------------------------------------------------
(* Filesystem *)

Dirs == {"R", "A", "B", "R/T", "A/T", "B/T", "A/T/T"}

\* joinPath(dir, name) for the names that are directories
SubDirs(d) ==
    CASE d = "R"   -> { <<<<"A">>, "A">>, <<<<"B">>, "B">>, <<TEMP_SPLIT, "R/T">> }
      [] d = "A"   -> { <<TEMP_SPLIT, "A/T">> }
      [] d = "B"   -> { <<TEMP_SPLIT, "B/T">> }
      [] d = "A/T" -> { <<TEMP_SPLIT, "A/T/T">> }
      [] OTHER     -> {}

\* "$directory/__temp_split"
TempOf(d) == (CHOOSE p \in SubDirs(d) : p[1] = TEMP_SPLIT)[2]

HasTempSlot(d) == \E p \in SubDirs(d) : p[1] = TEMP_SPLIT

\* names of the existing subdirectories of d
SubDirNames(f, d) == { p[1] : p \in { q \in SubDirs(d) : f.ex[q[2]] } }

\* every entry of directory d (regular files and subdirectories)
Entries(f, d) == f.files[d] \cup SubDirNames(f, d)

\* fs.readdir(dirPath): the entries in an order the OS chooses
readDirectory(f, d) ==
    IF rev THEN Reverse(Sorted(Entries(f, d))) ELSE Sorted(Entries(f, d))

\* fs.access(path) resolves
exists(f, d, name) == f.ex[d] /\ name \in Entries(f, d)

\* fs.access(path) resolves, for the path of a directory
existsDir(f, d) == f.ex[d]

\* readdir on d throws
ReadFails(f, d) == ~f.ex[d] \/ ~readable[d]

----------------------------------------------------------------------------
(* Pair Scanner *)

CueAudioPair(d, cue, audio) == [directory |-> d, cueFile |-> cue, audioFile |-> audio]

\* basename of an audio file as the pairing loop computes it
audioBasenameOf(audioFile) ==
    IF isFlacFile(audioFile) THEN getBasename(audioFile, EXT_FLAC)
    ELSE getBasename(audioFile, EXT_WAV)

\* the inner loop: the first audio file, in listing order, that matches cueFile
MatchFor(f, d, cueFile, audioFiles) ==
    SelectSeq(audioFiles, LAMBDA a :
        /\ getBasename(cueFile, EXT_CUE) = audioBasenameOf(a)
        /\ exists(f, d, cueFile)
        /\ exists(f, d, a))

RECURSIVE PairsOfCues(_, _, _, _)
PairsOfCues(f, d, cueFiles, audioFiles) ==
    IF cueFiles = <<>> THEN <<>>
    ELSE LET m == MatchFor(f, d, Head(cueFiles), audioFiles)
             rest == PairsOfCues(f, d, Tail(cueFiles), audioFiles)
         IN IF m = <<>> THEN rest
            ELSE <<CueAudioPair(d, Head(cueFiles), Head(m))>> \o rest

\* a scan of one directory that pays no heed to ignoreFailed
findCueAudioPairsInDirectory_NoSkip(f, d, options) ==
    IF ReadFails(f, d) THEN <<>>
    ELSE LET files == readDirectory(f, d)
         IN PairsOfCues(f, d, SelectSeq(files, isCueFile), SelectSeq(files, isAudioFile))

\* findCueAudioPairsInDirectory: the listing, the ignoreFailed skip, the matching
findCueAudioPairsInDirectory(f, d, options) ==
    IF ReadFails(f, d) THEN <<>>
    ELSE LET files == readDirectory(f, d)
             cueFiles == SelectSeq(files, isCueFile)
             audioFiles == SelectSeq(files, isAudioFile)
         IN IF options.ignoreFailed /\ (\E i \in 1..Len(files) : files[i] = TEMP_SPLIT)
            THEN <<>>
            ELSE PairsOfCues(f, d, cueFiles, audioFiles)

\* the subdirectories of d in listing order, as directories
subdirectories(f, d) ==
    LET names == SelectSeq(readDirectory(f, d), LAMBDA n : n \in SubDirNames(f, d))
    IN [i \in 1..Len(names) |-> (CHOOSE p \in SubDirs(d) : p[1] = names[i])[2]]

RECURSIVE scanCueAudioPairs(_, _, _)
RECURSIVE ScanSubdirs(_, _, _)
ScanSubdirs(f, ds, options) ==
    IF ds = <<>> THEN <<>>
    ELSE scanCueAudioPairs(f, Head(ds), options) \o ScanSubdirs(f, Tail(ds), options)

\* a scan that gives up on the subdirectories when one of them cannot be read
scanCueAudioPairs_Abort(f, d, options) ==
    LET current == findCueAudioPairsInDirectory(f, d, options)
    IN IF ReadFails(f, d) THEN current
       ELSE IF \E i \in 1..Len(subdirectories(f, d)) : ReadFails(f, subdirectories(f, d)[i])
       THEN current
       ELSE current \o ScanSubdirs(f, subdirectories(f, d), options)

scanCueAudioPairs(f, d, options) ==
    LET current == findCueAudioPairsInDirectory(f, d, options)
    IN IF ReadFails(f, d) THEN current
       ELSE current \o ScanSubdirs(f, subdirectories(f, d), options)

\* the number of "Error scanning directories" lines a scan of d logs: one for
\* each directory visited whose readDirectoryWithTypes throws
RECURSIVE LoggedScanErrors(_, _)
RECURSIVE LoggedInSubdirs(_, _)
LoggedInSubdirs(f, ds) ==
    IF ds = <<>> THEN 0
    ELSE LoggedScanErrors(f, Head(ds)) + LoggedInSubdirs(f, Tail(ds))

LoggedScanErrors(f, d) ==
    IF ReadFails(f, d) THEN 1 ELSE LoggedInSubdirs(f, subdirectories(f, d))

----------------------------------------------------------------------------
(* bash functions: split_cue_audio and cleanup_temp_split *)

Result(f, st) == [fs |-> f, status |-> st]

\* ls | grep -iE '\.<ext>$' | head -n1, then [ -f ... ]: the first regular
\* file of the working directory, in ls order, with that suffix; <<>> if none
FirstWithSuffix(f, d, ext) ==
    LET hits == SelectSeq(Sorted(Entries(f, d)), LAMBDA n : EndsWithLower(n, ext))
    IN IF hits # <<>> /\ Head(hits) \in f.files[d] THEN Head(hits) ELSE <<>>

\* find_audio_file: FLAC first, then WAV; <<>> stands for "return 1"
find_audio_file(f, d) ==
    IF FirstWithSuffix(f, d, EXT_FLAC) # <<>> THEN FirstWithSuffix(f, d, EXT_FLAC)
    ELSE FirstWithSuffix(f, d, EXT_WAV)

\* get_audio_format: the regex match is case-sensitive
get_audio_format(audio_file) ==
    IF audio_file[Len(audio_file)] = ".flac" THEN "flac"
    ELSE IF audio_file[Len(audio_file)] = ".wav" THEN "wav"
    ELSE "unknown"

\* the files shnsplit -o <format> -t "%n. %t" writes for tracks 1..n
TrackFiles(n, format) ==
    { TrackName(i, IF format = "flac" THEN EXT_FLAC ELSE EXT_WAV) : i \in 1..n }

\* what the external tools do in one split_cue_audio call
SplitOutcomes == {"ok", "nodeps", "splitfail", "tagfail"}

\* split_cue_audio "$cue_file", run with directory d as working directory.
\* errexit: the shell runs under set -e (zx's default prefix), so a failing
\* splitter or tagger ends the function with a non-zero status.
split_cue_audio(f, d, cue_file, outcome, errexit) ==
    LET audio_file == find_audio_file(f, d)
        format == get_audio_format(audio_file)
        out_dir == TempOf(d)
        made == [f EXCEPT !.ex[out_dir] = TRUE]
        splitOk == /\ outcome \in {"ok", "tagfail"}
                   /\ format # "unknown"
                   /\ cue_file \in f.files[d]
        written == IF splitOk THEN TrackFiles(NumTracks, format)
                   ELSE IF format = "unknown" \/ cue_file \notin f.files[d] THEN {}
                   ELSE TrackFiles(NumTracks - 1, format)
        after == [made EXCEPT !.files[out_dir] = @ \cup written]
    IN IF ~f.ex[d] THEN Result(f, 1)                      \* cd fails
       ELSE IF audio_file = <<>> THEN Result(f, 1)         \* find_audio_file
       ELSE IF outcome = "nodeps" THEN Result(f, 1)        \* check_dependencies
       ELSE IF ~splitOk THEN Result(after, IF errexit THEN 1 ELSE 0)
       ELSE IF outcome = "tagfail" THEN Result(after, IF errexit THEN 1 ELSE 0)
       ELSE Result(after, 0)

\* "$temp_dir"/*.flac "$temp_dir"/*.wav, then "$temp_dir"/*.cue: the regular
\* files the two for-loops of cleanup_temp_split visit, in order.  The globs
\* are case-sensitive.
MoveList(f, temp_dir) ==
    LET names == Sorted(f.files[temp_dir])
    IN SelectSeq(names, LAMBDA n : n[Len(n)] = ".flac")
       \o SelectSeq(names, LAMBDA n : n[Len(n)] = ".wav")
       \o SelectSeq(names, LAMBDA n : n[Len(n)] = ".cue")

\* the elements of a sequence
Range(s) == { s[i] : i \in 1..Len(s) }

\* the files that the mv commands move when the mvFailAt-th mv fails
\* (0: none fails).  Under errexit the function stops at the failing mv.
MovedFiles(list, mvFailAt, errexit) ==
    IF mvFailAt = 0 \/ mvFailAt > Len(list) THEN Range(list)
    ELSE IF errexit THEN Range(SubSeq(list, 1, mvFailAt - 1))
    ELSE Range(list) \ {list[mvFailAt]}

\* a removal that leaves the directory in place
RemoveTree_Keep(f, temp_dir) == f

\* rm -rf "$temp_dir": the directory and everything below it
RemoveTree(f, temp_dir) ==
    LET gone == {temp_dir} \cup (IF HasTempSlot(temp_dir) THEN {TempOf(temp_dir)} ELSE {})
    IN [ex |-> [x \in Dirs |-> IF x \in gone THEN FALSE ELSE f.ex[x]],
        files |-> [x \in Dirs |-> IF x \in gone THEN {} ELSE f.files[x]]]

\* a cleanup that goes on to the rm commands after a failed mv
cleanup_temp_split_NoAbort(f, d, cue_file, mvFailAt, errexit, rel) ==
    LET audio_file == find_audio_file(f, d)
        temp_dir == TempOf(d)
        list == IF f.ex[temp_dir] THEN MoveList(f, temp_dir) ELSE <<>>
        moved == MovedFiles(list, mvFailAt, FALSE)
        afterMv == [f EXCEPT !.files[d] = @ \cup moved,
                             !.files[temp_dir] = @ \ moved]
        afterRm == [afterMv EXCEPT !.files[d] = @ \ {cue_file, audio_file}]
    IN IF rel \/ ~f.ex[d] THEN Result(f, 1)
       ELSE IF audio_file = <<>> THEN Result(f, 1)
       ELSE Result(IF f.ex[temp_dir] THEN RemoveTree(afterRm, temp_dir) ELSE afterRm, 0)

\* cleanup_temp_split "$cue_path" with cue_path = joinPath(directory, cueFile).
\* rel: the path is relative, so cd "$directory" from inside the directory fails.
cleanup_temp_split(f, d, cue_file, mvFailAt, errexit, rel) ==
    LET audio_file == find_audio_file(f, d)
        temp_dir == TempOf(d)
        list == IF f.ex[temp_dir] THEN MoveList(f, temp_dir) ELSE <<>>
        moved == MovedFiles(list, mvFailAt, errexit)
        aborted == errexit /\ mvFailAt \in 1..Len(list)
        afterMv == [f EXCEPT !.files[d] = @ \cup moved,
                             !.files[temp_dir] = @ \ moved]
        afterRm == [afterMv EXCEPT !.files[d] = @ \ {cue_file, audio_file}]
    IN IF rel \/ ~f.ex[d] THEN Result(f, 1)               \* cd "$directory" || return 1
       ELSE IF audio_file = <<>> THEN Result(f, 1)         \* find_audio_file
       ELSE IF aborted THEN Result(afterMv, 1)
       ELSE Result(IF f.ex[temp_dir] THEN RemoveTree(afterRm, temp_dir) ELSE afterRm, 0)

----------------------------------------------------------------------------
(* fix-unsplit-cue: the interactive driver, run() *)

\* a shell that goes on after a failing command
ZxErrexit_Off == FALSE

\* zx runs every command under its default prefix "set -euo pipefail;"
ZxErrexit == TRUE

\* the root folder given on the command line
FolderPath == "R"

Event(op, i) == [op |-> op, i |-> i]

\* a loop that goes on after a failed pair
AfterFailure_Continue == "loop"

\* the loop's reaction to a failed pair: failureCount++, then break
AfterFailure == "summary"

\* a summary that never sets the exit code
SummaryExitCode_Zero(failures) == 0

\* if (failureCount > 0) process.exitCode = 1
SummaryExitCode(failures) == IF failures > 0 THEN 1 ELSE 0

\* an ask that prompts with --yes as it does without
Asked_Always == IF opts.yes THEN 1 ELSE 1

\* ask(q): with --yes the answer is true and nothing is prompted
Answers == IF opts.yes THEN {TRUE} ELSE BOOLEAN
Asked   == IF opts.yes THEN 0 ELSE 1

\* exists(folderPath), the invariant, the scan, and the empty-result return
Start ==
    /\ pc = "start"
    /\ IF ~existsDir(fs, FolderPath)
       THEN /\ pc' = "done"
            /\ exitCode' = 1
            /\ threw' = "invariant"
            /\ pairs' = pairs
       ELSE /\ pairs' = scanCueAudioPairs(fs, FolderPath, opts)
            /\ threw' = threw
            /\ IF Len(pairs') = 0
               THEN pc' = "done" /\ exitCode' = 0
               ELSE pc' = "confirmAll" /\ exitCode' = exitCode
    /\ UNCHANGED <<fs, fs0, readable, rev, relative, opts, idx, successCount,
                   failureCount, summary, prompts, events, cancelled, dl, mv, dt>>

\* a confirmation whose answer is not heeded
ConfirmProcessing_NoReturn ==
    /\ pc = "confirmAll"
    /\ \E proceed \in Answers :
        /\ prompts' = prompts + Asked
        /\ cancelled' = ~proceed
        /\ pc' = "loop" /\ idx' = 1 /\ exitCode' = exitCode
    /\ UNCHANGED <<fs, fs0, readable, rev, relative, opts, pairs, successCount,
                   failureCount, summary, events, threw, dl, mv, dt>>

\* confirmProcessing: "Do you want to proceed with splitting these files?"
ConfirmProcessing ==
    /\ pc = "confirmAll"
    /\ \E proceed \in Answers :
        /\ prompts' = prompts + Asked
        /\ cancelled' = ~proceed
        /\ IF proceed
           THEN pc' = "loop" /\ idx' = 1 /\ exitCode' = exitCode
           ELSE pc' = "done" /\ idx' = idx /\ exitCode' = 0
    /\ UNCHANGED <<fs, fs0, readable, rev, relative, opts, pairs, successCount,
                   failureCount, summary, events, threw, dl, mv, dt>>

\* the for-loop has no pair left
LoopDone ==
    /\ pc = "loop"
    /\ idx > Len(pairs)
    /\ pc' = "summary"
    /\ UNCHANGED <<fs, fs0, readable, rev, relative, opts, pairs, idx, successCount,
                   failureCount, exitCode, summary, prompts, events, cancelled, threw, dl, mv, dt>>

\* readDirectory(pair.directory) throws: run() rejects, the action handler
\* logs "Script failed" and calls process.exit(1)
ListingFails ==
    /\ pc = "loop"
    /\ idx <= Len(pairs)
    /\ ReadFails(fs, pairs[idx].directory)
    /\ pc' = "done"
    /\ exitCode' = 1
    /\ threw' = "readdir"
    /\ UNCHANGED <<fs, fs0, readable, rev, relative, opts, pairs, idx, successCount,
                   failureCount, summary, prompts, events, cancelled, dl, mv, dt>>

\* a loop that a declined pair ends
ConfirmPair_Break ==
    /\ pc = "loop"
    /\ idx <= Len(pairs)
    /\ ~ReadFails(fs, pairs[idx].directory)
    /\ \E doProcess \in Answers :
        /\ prompts' = prompts + Asked
        /\ events' = Append(events, Event("confirm", idx))
        /\ IF doProcess
           THEN pc' = "split" /\ idx' = idx
           ELSE pc' = "summary" /\ idx' = idx
    /\ UNCHANGED <<fs, fs0, readable, rev, relative, opts, pairs, successCount,
                   failureCount, exitCode, summary, cancelled, threw, dl, mv, dt>>

\* the folder contents are listed and "Do you want to process <cue>?" is asked
ConfirmPair ==
    /\ pc = "loop"
    /\ idx <= Len(pairs)
    /\ ~ReadFails(fs, pairs[idx].directory)
    /\ \E doProcess \in Answers :
        /\ prompts' = prompts + Asked
        /\ events' = Append(events, Event("confirm", idx))
        /\ IF doProcess
           THEN pc' = "split" /\ idx' = idx
           ELSE pc' = "loop" /\ idx' = idx + 1
    /\ UNCHANGED <<fs, fs0, readable, rev, relative, opts, pairs, successCount,
                   failureCount, exitCode, summary, cancelled, threw, dl, mv, dt>>

\* processCueAudioPair, first half: cd <directory> && split_cue_audio <cueFile>
Split ==
    /\ pc = "split"
    /\ \E outcome \in SplitOutcomes :
        LET r == split_cue_audio(fs, pairs[idx].directory, pairs[idx].cueFile,
                                 outcome, ZxErrexit)
        IN /\ fs' = r.fs
           /\ events' = Append(events, Event("split", idx))
           /\ IF r.status = 0
              THEN pc' = "askCleanup" /\ failureCount' = failureCount
              ELSE pc' = AfterFailure /\ failureCount' = failureCount + 1
    /\ UNCHANGED <<fs0, readable, rev, relative, opts, pairs, idx, successCount,
                   exitCode, summary, prompts, cancelled, threw, dl, mv, dt>>

\* "Do you want to cleanup original files and move split tracks ...?"
AskCleanup ==
    /\ pc = "askCleanup"
    /\ \E proceed \in Answers :
        /\ prompts' = prompts + Asked
        /\ IF proceed
           THEN pc' = "cleanup" /\ idx' = idx /\ successCount' = successCount
           ELSE pc' = "loop" /\ idx' = idx + 1 /\ successCount' = successCount + 1
    /\ UNCHANGED <<fs, fs0, readable, rev, relative, opts, pairs, failureCount,
                   exitCode, summary, events, cancelled, threw, dl, mv, dt>>

\* processCueAudioPair, second half: cd <directory> && cleanup_temp_split <cuePath>
Cleanup ==
    /\ pc = "cleanup"
    /\ LET d == pairs[idx].directory
           n == IF fs.ex[d] /\ fs.ex[TempOf(d)] THEN Len(MoveList(fs, TempOf(d))) ELSE 0
       IN \E mvFailAt \in 0..n :
           LET r == cleanup_temp_split(fs, d, pairs[idx].cueFile, mvFailAt,
                                       ZxErrexit, relative)
           IN /\ fs' = r.fs
              /\ events' = Append(events, Event("cleanup", idx))
              /\ IF r.status = 0
                 THEN /\ pc' = "loop" /\ idx' = idx + 1
                      /\ successCount' = successCount + 1
                      /\ failureCount' = failureCount
                 ELSE /\ pc' = AfterFailure /\ idx' = idx
                      /\ successCount' = successCount
                      /\ failureCount' = failureCount + 1
    /\ UNCHANGED <<fs0, readable, rev, relative, opts, pairs, exitCode, summary,
                   prompts, cancelled, threw, dl, mv, dt>>

\* the zx command of the step at hand has been started and has not ended
Invoked == events # <<>> /\ events[Len(events)] = Event("begin", idx)

\* a command that is started and not awaited: the loop goes on at once
InvokeTool_NoAwait ==
    /\ pc \in {"split", "cleanup"}
    /\ ~Invoked
    /\ events' = Append(events, Event("begin", idx))
    /\ pc' = "loop"
    /\ idx' = idx + 1
    /\ UNCHANGED <<fs, fs0, readable, rev, relative, opts, pairs, successCount,
                   failureCount, exitCode, summary, prompts, cancelled, threw, dl, mv, dt>>

\* await $`cd ... && split_cue_audio ...` / $`cd ... && cleanup_temp_split ...`:
\* the child process is started; run() stays at the await until it has ended
InvokeTool ==
    /\ pc \in {"split", "cleanup"}
    /\ ~Invoked
    /\ events' = Append(events, Event("begin", idx))
    /\ UNCHANGED <<fs, fs0, readable, rev, relative, opts, pc, pairs, idx, successCount,
                   failureCount, exitCode, summary, prompts, cancelled, threw, dl, mv, dt>>

\* displaySummary(successCount, failureCount, pairs.length) and the exit code
Summary ==
    /\ pc = "summary"
    /\ summary' = <<[success |-> successCount, failure |-> failureCount,
                     total |-> Len(pairs)]>>
    /\ exitCode' = SummaryExitCode(failureCount)
    /\ pc' = "done"
    /\ UNCHANGED <<fs, fs0, readable, rev, relative, opts, pairs, idx, successCount,
                   failureCount, prompts, events, cancelled, threw, dl, mv, dt>>


----------------------------------------------------------------------------
(* the bash functions called on their own, through zx as the driver calls
   them, any number of times and in any order *)

\* the bound on the number of calls in a row
MaxCalls == 3

\* cd <directory> && source functions.sh && split_cue_audio <cueFile>
BashSplit ==
    /\ pc = "bash"
    /\ Len(events) < MaxCalls
    /\ \E outcome \in SplitOutcomes :
        LET r == split_cue_audio(fs, pairs[idx].directory, pairs[idx].cueFile,
                                 outcome, ZxErrexit)
        IN /\ fs' = r.fs
           /\ exitCode' = r.status
           /\ events' = Append(events, Event("split", idx))
    /\ UNCHANGED <<fs0, readable, rev, relative, opts, pc, pairs, idx, successCount,
                   failureCount, summary, prompts, cancelled, threw, dl, mv, dt>>

\* cd <directory> && source functions.sh && cleanup_temp_split <cuePath>
BashCleanup ==
    /\ pc = "bash"
    /\ Len(events) < MaxCalls
    /\ LET d == pairs[idx].directory
           n == IF fs.ex[d] /\ fs.ex[TempOf(d)] THEN Len(MoveList(fs, TempOf(d))) ELSE 0
       IN \E mvFailAt \in 0..n :
           LET r == cleanup_temp_split(fs, d, pairs[idx].cueFile, mvFailAt,
                                       ZxErrexit, relative)
           IN /\ fs' = r.fs
              /\ exitCode' = r.status
              /\ events' = Append(events, Event("cleanup", idx))
    /\ UNCHANGED <<fs0, readable, rev, relative, opts, pc, pairs, idx, successCount,
                   failureCount, summary, prompts, cancelled, threw, dl, mv, dt>>

----------------------------------------------------------------------------
(* download: run() of the download command *)

\* the bound on the retry counts tried
MaxRetries == 3

\* setTimeout(r, 500 * attempt)
BackoffMs == 500

DigitChars == <<"0", "1", "2", "3", "4", "5", "6", "7", "8", "9">>

IsDigit(c) == \E i \in 1..10 : DigitChars[i] = c
DigitValue(c) == (CHOOSE i \in 1..10 : DigitChars[i] = c) - 1

\* a number as JavaScript has it: NaN or an integer
Num(v) == [nan |-> FALSE, v |-> v]
NaN == [nan |-> TRUE, v |-> 0]

\* the leading digits of a character sequence, as a number; acc is the value
\* and seen says whether a digit was read
RECURSIVE ParseDigits(_, _, _)
ParseDigits(chars, acc, seen) ==
    IF chars # <<>> /\ IsDigit(Head(chars))
    THEN ParseDigits(Tail(chars), acc * 10 + DigitValue(Head(chars)), TRUE)
    ELSE IF seen THEN Num(acc) ELSE NaN

\* parseInt(val, 10): optional sign, leading digits, the rest ignored
parseInt(val) ==
    IF val # <<>> /\ Head(val) = "-"
    THEN LET n == ParseDigits(Tail(val), 0, FALSE)
         IN IF n.nan THEN NaN ELSE Num(0 - n.v)
    ELSE IF val # <<>> /\ Head(val) = "+" THEN ParseDigits(Tail(val), 0, FALSE)
    ELSE ParseDigits(val, 0, FALSE)

\* a <= b and a > b on JavaScript numbers: false when either is NaN
LessEq(a, b) == ~a.nan /\ ~b.nan /\ a.v <= b.v
Greater(a, b) == ~a.nan /\ ~b.nan /\ a.v > b.v

\* the values of --retries tried: 0..MaxRetries, a negative number, text, the
\* empty string and a number followed by text
RetryStrings ==
    { <<DigitChars[n + 1]>> : n \in 0..MaxRetries }
    \cup { <<"-", "1">>, <<"a", "b", "c">>, <<>>, <<"1", "x">> }

\* what one fetchOnce call and the write after it come to
FetchOutcomes == {"neterror", "http404", "http500", "ok", "writefail"}

DlIdle ==
    [pc |-> "idle", retries |-> NaN, urlValid |-> TRUE, attempt |-> 0, calls |-> 0,
     requests |-> 0, delays |-> <<>>, written |-> FALSE, exitCode |-> -1,
     log |-> <<>>, path |-> <<"/">>, resp |-> [present |-> FALSE, params |-> <<>>],
     saved |-> <<>>, created |-> FALSE]

\* a loop that stops one attempt early
LoopGuard_Strict(attempt, retries) == Greater(retries, Num(attempt))

\* while (attempt <= options.retries)
LoopGuard(attempt, retries) == LessEq(Num(attempt), retries)

\* if (attempt > options.retries) { ...; throw err; }
RetriesExhausted(attempt, retries) == Greater(Num(attempt), retries)

\* ---- filenameFromHeaders: a header value is a sequence of tokens ----

\* the token read past the end of a value
At(s, i) == IF i \in 1..Len(s) THEN s[i] ELSE "<end>"

\* the word both patterns start with, under the /i flag
IsFilenameWord(t) == t \in {"filename", "Filename"}

\* the optional UTF-8'' of the first pattern, under the /i flag
IsUtf8Prefix(t) == t \in {"UTF-8''", "utf-8''"}

\* \s* : the first index at or after i that holds no space
RECURSIVE SkipSpaces(_, _)
SkipSpaces(s, i) == IF At(s, i) = " " THEN SkipSpaces(s, i + 1) ELSE i

\* [^...]+ : the last index of the longest run from i of tokens outside stop
\* (i - 1 when the run is empty)
RECURSIVE RunEnd(_, _, _)
RunEnd(s, i, stop) ==
    IF i <= Len(s) /\ s[i] \notin stop THEN RunEnd(s, i + 1, stop) ELSE i - 1

MaxOf(S) == CHOOSE x \in S : \A y \in S : y <= x
MinOf(S) == CHOOSE x \in S : \A y \in S : x <= y

NoMatch == [found |-> FALSE, value |-> <<>>]
Matched(v) == [found |-> TRUE, value |-> v]

\* /filename\*\s*=\s*(?:UTF-8'')?([^;]+)/i tried at index i; the capture starts
\* as far right as the greedy \s* and the optional prefix allow
StarMatchAt(s, i) ==
    LET j == SkipSpaces(s, i + 2)
        k == SkipSpaces(s, j + 1)
        m == IF IsUtf8Prefix(At(s, k)) THEN k + 1 ELSE k
        starts == { c \in (j + 1)..m : c <= Len(s) /\ s[c] # ";" }
    IN IF IsFilenameWord(At(s, i)) /\ At(s, i + 1) = "*" /\ At(s, j) = "="
          /\ starts # {}
       THEN Matched(SubSeq(s, MaxOf(starts), RunEnd(s, MaxOf(starts), {";"})))
       ELSE NoMatch

\* cdStr.value.match(RFC5987_RE)?.[1]: the leftmost match
RFC5987_RE(s) ==
    LET hits == { i \in 1..Len(s) : StarMatchAt(s, i).found }
    IN IF hits = {} THEN NoMatch ELSE StarMatchAt(s, MinOf(hits))

\* /filename\s*=\s*("?)([^";]+)\1/i tried at index i: the quoted reading first
\* (the closing quote must follow the run), then the unquoted one
PlainMatchAt(s, i) ==
    LET j == SkipSpaces(s, i + 1)
        k == SkipSpaces(s, j + 1)
        stop == {"\"", ";"}
        qe == RunEnd(s, k + 1, stop)
        quoted == At(s, k) = "\"" /\ qe >= k + 1 /\ At(s, qe + 1) = "\""
        starts == { c \in (j + 1)..k : c <= Len(s) /\ s[c] \notin stop }
    IN IF ~(IsFilenameWord(At(s, i)) /\ At(s, j) = "=") THEN NoMatch
       ELSE IF quoted THEN Matched(SubSeq(s, k + 1, qe))
       ELSE IF starts # {}
       THEN Matched(SubSeq(s, MaxOf(starts), RunEnd(s, MaxOf(starts), stop)))
       ELSE NoMatch

\* cdStr.value.match(RFC5987_RE_2)?.[2]: the leftmost match
RFC5987_RE_2(s) ==
    LET hits == { i \in 1..Len(s) : PlainMatchAt(s, i).found }
    IN IF hits = {} THEN NoMatch ELSE PlainMatchAt(s, MinOf(hits))

\* .replace(/^["']|["']$/g, ""): one quote off each end
StripQuotes(v) ==
    LET a == IF v # <<>> /\ Head(v) \in {"\"", "'"} THEN Tail(v) ELSE v
    IN IF a # <<>> /\ a[Len(a)] \in {"\"", "'"} THEN SubSeq(a, 1, Len(a) - 1) ELSE a

\* .trim()
RECURSIVE Trim(_)
Trim(v) ==
    IF v # <<>> /\ Head(v) = " " THEN Trim(Tail(v))
    ELSE IF v # <<>> /\ v[Len(v)] = " " THEN Trim(SubSeq(v, 1, Len(v) - 1))
    ELSE v

\* decodeURIComponent: %41 is an escape of "A", a lone % is malformed
DecodeToken(t) == IF t = "%41" THEN "A" ELSE t
DecodeThrows(v) == \E i \in 1..Len(v) : v[i] = "%"
decodeURIComponent(v) == [i \in 1..Len(v) |-> DecodeToken(v[i])]

\* basename(new URL(url).pathname): the last segment, trailing slashes ignored
RECURSIVE basename(_)
basename(path) ==
    IF path = <<>> THEN <<>>
    ELSE IF path[Len(path)] = "/" THEN basename(SubSeq(path, 1, Len(path) - 1))
    ELSE <<path[Len(path)]>>

\* what filenameFromHeaders comes to: a name, or an exception
Name(n) == [ok |-> TRUE, name |-> n]
Thrown == [ok |-> FALSE, name |-> <<>>]

\* basename(...) || "download.bin"
fallbackName(path) == IF basename(path) = <<>> THEN <<"download.bin">> ELSE basename(path)

\* filenameFromHeaders(url, headers); cd = <<>> is a response without the header
filenameFromHeaders(path, cd) ==
    LET star == RFC5987_RE(cd)
        plain == RFC5987_RE_2(cd)
        starName == Trim(StripQuotes(star.value))
    IN IF cd = <<>> THEN Name(fallbackName(path))
       ELSE IF star.found
       THEN IF DecodeThrows(starName) THEN Thrown ELSE Name(decodeURIComponent(starName))
       ELSE IF plain.found
       THEN Name(IF DecodeThrows(plain.value) THEN plain.value
                 ELSE decodeURIComponent(plain.value))
       ELSE Name(fallbackName(path))

\* ---- the responses tried: Content-Disposition values built from parameters ----

\* file names a parameter may carry bare or quoted, and those it may carry
\* only quoted
BareValues == { <<"cover.jpg">>, <<"%41", ".jpg">>, <<"100", "%", ".txt">> }
QuotedValues == BareValues \cup { <<"a", ";", "b.jpg">>, <<"..", "/", "evil.sh">> }

StarParams ==
    { [form |-> "star", charset |-> c, quoted |-> FALSE, value |-> v] :
        c \in BOOLEAN, v \in BareValues }
    \cup { [form |-> "star", charset |-> FALSE, quoted |-> TRUE, value |-> v] :
             v \in BareValues }

PlainParams ==
    { [form |-> "plain", charset |-> FALSE, quoted |-> FALSE, value |-> v] :
        v \in BareValues }
    \cup { [form |-> "plain", charset |-> FALSE, quoted |-> TRUE, value |-> v] :
             v \in QuotedValues }

\* the parameters of one header: none, one, or one of each form in either order
ParamLists ==
    { <<>> }
    \cup { <<p>> : p \in StarParams \cup PlainParams }
    \cup { <<p, q>> : p \in StarParams, q \in PlainParams }
    \cup { <<q, p>> : p \in StarParams, q \in PlainParams }

RenderParam(p) ==
    <<"filename">> \o (IF p.form = "star" THEN <<"*">> ELSE <<>>) \o <<"=">>
    \o (IF p.charset THEN <<"UTF-8''">> ELSE <<>>)
    \o (IF p.quoted THEN <<"\"">> \o p.value \o <<"\"">> ELSE p.value)

\* attachment; <param>; <param>
RECURSIVE RenderParams(_)
RenderParams(ps) ==
    IF ps = <<>> THEN <<>>
    ELSE <<";", " ">> \o RenderParam(Head(ps)) \o RenderParams(Tail(ps))

HeaderValue(ps) == <<"attachment">> \o RenderParams(ps)

\* the responses: no Content-Disposition at all, or one with these parameters
Responses ==
    { [present |-> FALSE, params |-> <<>>] }
    \cup { [present |-> TRUE, params |-> ps] : ps \in ParamLists }

HeaderOf(resp) == IF resp.present THEN HeaderValue(resp.params) ELSE <<>>

\* the URL paths tried
UrlPaths == { <<"/", "dir", "/", "file.bin">>, <<"/">>, <<"/", "dir", "/">> }

\* mkdir(options.dest, {recursive: true}): the directory is made, was there
\* already, or cannot be made
MkdirOutcomes == {"created", "existed", "failed"}

\* optionsSchema.parse(options) and mkdir(options.dest, {recursive: true})
DlStart ==
    /\ dl.pc = "start"
    /\ \E mkdir \in MkdirOutcomes :
          dl' = IF mkdir = "failed" THEN [dl EXCEPT !.pc = "done", !.exitCode = 1]
                ELSE [dl EXCEPT !.pc = "loop", !.created = (mkdir = "created")]
    /\ UNCHANGED <<fixVars, mv, dt>>

\* the while condition is false: run() returns and the process ends normally
DlLoopExit ==
    /\ dl.pc = "loop"
    /\ ~LoopGuard(dl.attempt, dl.retries)
    /\ dl' = [dl EXCEPT !.pc = "done", !.exitCode = 0]
    /\ UNCHANGED <<fixVars, mv, dt>>

\* one turn of the loop: the backoff, the GET, the status check, the file name,
\* the write, and the catch block
DlAttempt ==
    /\ dl.pc = "loop"
    /\ LoopGuard(dl.attempt, dl.retries)
    /\ \E outcome \in FetchOutcomes, resp \in Responses :
        LET waited == IF dl.attempt > 0
                      THEN Append(dl.delays, BackoffMs * dl.attempt) ELSE dl.delays
            sent == IF dl.urlValid THEN 1 ELSE 0
            answered == dl.urlValid /\ outcome = "ok"
            named == filenameFromHeaders(dl.path, HeaderOf(resp))
            ok == answered /\ named.ok
            tried == [dl EXCEPT !.delays = waited, !.calls = @ + 1,
                                !.requests = @ + sent,
                                !.log = Append(@, IF ~dl.urlValid THEN "invalidurl"
                                                  ELSE IF answered /\ ~named.ok
                                                  THEN "nameerror" ELSE outcome)]
        IN /\ ~answered => ~resp.present
           /\ dl' = IF ok
                 THEN [tried EXCEPT !.written = TRUE, !.pc = "done", !.exitCode = 0,
                                    !.resp = resp, !.saved = named.name]
                 ELSE IF RetriesExhausted(dl.attempt + 1, dl.retries)
                 THEN [tried EXCEPT !.attempt = @ + 1, !.pc = "done", !.exitCode = 1]
                 ELSE [tried EXCEPT !.attempt = @ + 1]
    /\ UNCHANGED <<fixVars, mv, dt>>

----------------------------------------------------------------------------
(* move-completed: run() of dist/commands/move-completed.js *)

Upper == <<"A", "B", "C", "D", "E", "F", "G", "H", "I", "J", "K", "L", "M",
           "N", "O", "P", "Q", "R", "S", "T", "U", "V", "W", "X", "Y", "Z">>
Lower == <<"a", "b", "c", "d", "e", "f", "g", "h", "i", "j", "k", "l", "m",
           "n", "o", "p", "q", "r", "s", "t", "u", "v", "w", "x", "y", "z">>

\* the place of a letter in the alphabet, whatever its case; 0 for any other
\* character
LetterIndex(c) ==
    IF \E i \in 1..Len(Upper) : Upper[i] = c \/ Lower[i] = c
    THEN CHOOSE i \in 1..Len(Upper) : Upper[i] = c \/ Lower[i] = c
    ELSE 0

\* String.prototype.toUpperCase on one character
toUpperCase(c) == IF LetterIndex(c) # 0 THEN Upper[LetterIndex(c)] ELSE c

\* the seven ranges; pattern /^[lo-hi]/i
ALPHABETICAL_RANGES ==
    << [name |-> "A-D", lo |-> "A", hi |-> "D"],
       [name |-> "E-F", lo |-> "E", hi |-> "F"],
       [name |-> "G-I", lo |-> "G", hi |-> "I"],
       [name |-> "J-M", lo |-> "J", hi |-> "M"],
       [name |-> "N-Q", lo |-> "N", hi |-> "Q"],
       [name |-> "R-T", lo |-> "R", hi |-> "T"],
       [name |-> "U-Z", lo |-> "U", hi |-> "Z"] >>

\* r.pattern.test(firstChar)
PatternTest(r, c) ==
    /\ LetterIndex(c) # 0
    /\ LetterIndex(r.lo) <= LetterIndex(c)
    /\ LetterIndex(c) <= LetterIndex(r.hi)

\* a choice of range that tells upper case from lower case
getTargetDirectory_CaseSensitive(artistName) ==
    LET hits == { i \in 1..Len(ALPHABETICAL_RANGES) :
                    \E k \in 1..Len(Upper) :
                        /\ Upper[k] = Head(artistName)
                        /\ LetterIndex(ALPHABETICAL_RANGES[i].lo) <= k
                        /\ k <= LetterIndex(ALPHABETICAL_RANGES[i].hi) }
    IN IF hits # {}
       THEN << <<ALPHABETICAL_RANGES[MinOf(hits)].name>>, artistName >>
       ELSE << artistName >>

\* getTargetDirectory(artistName, targetDir), as the segments below targetDir;
\* an artist name is its first character followed by the rest
getTargetDirectory(artistName) ==
    LET firstChar == toUpperCase(Head(artistName))
        hits == { i \in 1..Len(ALPHABETICAL_RANGES) :
                    PatternTest(ALPHABETICAL_RANGES[i], firstChar) }
    IN IF hits # {}
       THEN << <<ALPHABETICAL_RANGES[MinOf(hits)].name>>, artistName >>
       ELSE << artistName >>

\* the " (counter)" pieces of a renamed album
CounterSuffix == <<" (1)", " (2)", " (3)", " (4)", " (5)", " (6)">>

\* path.extname(base): the part from the last dot on
extname(base) ==
    IF Len(base) > 1 /\ base[Len(base)] \in {".2"} THEN <<base[Len(base)]>> ELSE <<>>

\* `${name} (${counter})${ext}`
Suffixed(base, counter) ==
    LET ext == extname(base)
        name == SubSeq(base, 1, Len(base) - Len(ext))
    IN name \o <<CounterSuffix[counter]>> \o ext

\* exists(path) for an album path below targetDir: it was there before the run,
\* or this run put it there
AlbumExists(m, dir, base) ==
    base \in m.existing \/ [dir |-> dir, base |-> base] \in m.placed

\* a loop that settles for the first renamed path, free or not
NextFree_NoCheck(m, dir, base, counter) == Suffixed(base, counter)

\* the while loop of resolveNamingConflict
RECURSIVE NextFree(_, _, _, _)
NextFree(m, dir, base, counter) ==
    IF ~AlbumExists(m, dir, Suffixed(base, counter)) THEN Suffixed(base, counter)
    ELSE NextFree(m, dir, base, counter + 1)

\* resolveNamingConflict(targetPath, options): the free name for the album
resolveNamingConflict(m, dir, base) ==
    IF m.dryRun THEN base
    ELSE IF ~AlbumExists(m, dir, base) THEN base
    ELSE NextFree(m, dir, base, 1)

\* inferArtistName: the artist tag of the first music file that has one
\* (<<>> when none has)
inferArtistName(m, album) == m.meta[album]

\* processAlbumFolders: one operation per album whose artist is known or typed
\* in (typed = the answer to promptForArtistName)
RECURSIVE processAlbumFolders(_, _, _)
processAlbumFolders(m, albumFolders, typed) ==
    IF albumFolders = <<>> THEN <<>>
    ELSE LET album == Head(albumFolders)
             inferred == inferArtistName(m, album)
             artistName == IF inferred # <<>> THEN inferred
                           ELSE IF m.interactive THEN typed ELSE <<>>
             rest == processAlbumFolders(m, Tail(albumFolders), typed)
         IN IF artistName = <<>> THEN rest
            ELSE << [albumName |-> album, artistName |-> artistName,
                     targetDir |-> getTargetDirectory(artistName)] >> \o rest

\* how many albums promptForArtistName is called for
Unknown(m) == { i \in 1..Len(m.albums) : inferArtistName(m, m.albums[i]) = <<>> }

\* run() up to the confirmation: the two invariants, the scan, the operations
MvStart ==
    /\ mv.pc = "start"
    /\ \E typed \in mv.typedChoices :
        LET ops == processAlbumFolders(mv, mv.albums, typed)
            asked == IF mv.interactive THEN Cardinality(Unknown(mv)) ELSE 0
        IN mv' = IF ~mv.sourceExists \/ ~mv.targetExists
                 THEN [mv EXCEPT !.pc = "done", !.exitCode = 1, !.threw = TRUE]
                 ELSE IF mv.albums = <<>>
                 THEN [mv EXCEPT !.pc = "done", !.exitCode = 0]
                 ELSE IF ops = <<>>
                 THEN [mv EXCEPT !.pc = "done", !.exitCode = 0, !.prompts = asked]
                 ELSE [mv EXCEPT !.pc = "confirm", !.ops = ops, !.prompts = asked]
    /\ UNCHANGED <<fixVars, dl, dt>>

\* confirmProcessing: with --dry-run no question is asked
MvConfirm ==
    /\ mv.pc = "confirm"
    /\ \E proceed \in (IF mv.dryRun THEN {TRUE} ELSE BOOLEAN) :
        mv' = IF proceed
              THEN [mv EXCEPT !.pc = "loop", !.i = 1,
                              !.prompts = @ + (IF mv.dryRun THEN 0 ELSE 1)]
              ELSE [mv EXCEPT !.pc = "done", !.exitCode = 0, !.cancelled = TRUE,
                              !.prompts = @ + 1]
    /\ UNCHANGED <<fixVars, dl, dt>>

\* a loop that works whatever --dry-run says
SkipsWork_Never(m) == FALSE

\* if (!options.dryRun) createBackup(...); options.dryRun ? true : moveAlbumFolder(...)
SkipsWork(m) == m.dryRun

BackupOutcomes == {"ok", "failed"}
MoveOutcomes == {"ok", "mkdirfailed", "renamefailed"}

\* a createBackup that lets the error of a failed copy through
BackupThrows_OnFailure(backup) == backup = "failed"

\* createBackup catches the error of a failed copy and only warns
BackupThrows(backup) == FALSE

\* what one turn of the loop did
Turn(album, backup, move) == [album |-> album, backup |-> backup, move |-> move]

\* one turn of the for-loop: createBackup, then moveAlbumFolder
MvProcess ==
    /\ mv.pc = "loop"
    /\ mv.i <= Len(mv.ops)
    /\ \E gone \in BOOLEAN, backup \in BackupOutcomes, move \in MoveOutcomes :
        LET op == mv.ops[mv.i]
            final == resolveNamingConflict(mv, op.targetDir, op.albumName)
            to == [dir |-> op.targetDir, base |-> final]
            clobbers == AlbumExists(mv, op.targetDir, final)
            before == mv.existing
                      \cup { p.base : p \in { q \in mv.placed : q.dir = op.targetDir } }
            backed == [mv EXCEPT !.i = @ + 1,
                         !.backups = IF backup = "ok" THEN @ \cup {op.albumName} ELSE @,
                         !.warnings = IF backup = "ok" THEN @
                                      ELSE Append(@, [what |-> "backup", album |-> op.albumName])]
        IN mv' = IF SkipsWork(mv)
                 THEN [mv EXCEPT !.i = @ + 1, !.successCount = @ + 1,
                          !.turns = Append(@, Turn(op.albumName, "skipped", "skipped"))]
                 ELSE IF gone \/ op.albumName \notin mv.source
                 THEN [mv EXCEPT !.i = @ + 1, !.failureCount = @ + 1,
                          !.source = @ \ {op.albumName},
                          !.warnings = Append(@, [what |-> "gone", album |-> op.albumName]),
                          !.turns = Append(@, Turn(op.albumName, "gone", "gone"))]
                 ELSE IF BackupThrows(backup)
                 THEN [backed EXCEPT !.failureCount = @ + 1,
                          !.turns = Append(@, Turn(op.albumName, backup, "none"))]
                 ELSE IF move = "mkdirfailed"
                 THEN [backed EXCEPT !.failureCount = @ + 1,
                          !.turns = Append(@, Turn(op.albumName, backup, move))]
                 ELSE IF move = "renamefailed"
                 THEN [backed EXCEPT !.failureCount = @ + 1,
                                     !.dirs = @ \cup {op.targetDir},
                          !.turns = Append(@, Turn(op.albumName, backup, move))]
                 ELSE [backed EXCEPT !.successCount = @ + 1,
                          !.dirs = @ \cup {op.targetDir},
                          !.source = @ \ {op.albumName},
                          !.placed = @ \cup {to},
                          !.moves = Append(@, [album |-> op.albumName, to |-> to,
                                               clobbers |-> clobbers,
                                               before |-> before]),
                          !.turns = Append(@, Turn(op.albumName, backup, move))]
    /\ UNCHANGED <<fixVars, dl, dt>>

\* a loop that a failed album ends
MvSummary_FailFast ==
    /\ mv.pc = "loop"
    /\ mv.i > Len(mv.ops) \/ mv.failureCount > 0
    /\ mv' = [mv EXCEPT !.pc = "done", !.summary = TRUE,
                        !.exitCode = IF mv.failureCount > 0 THEN 1 ELSE 0]
    /\ UNCHANGED <<fixVars, dl, dt>>

\* displaySummary, and process.exit(1) when an album failed
MvSummary ==
    /\ mv.pc = "loop"
    /\ mv.i > Len(mv.ops)
    /\ mv' = [mv EXCEPT !.pc = "done", !.summary = TRUE,
                        !.exitCode = IF mv.failureCount > 0 THEN 1 ELSE 0]
    /\ UNCHANGED <<fixVars, dl, dt>>

\* ---- the folders tried ----

AlbumNames == { <<"Album">>, <<"Album", " (1)">>, <<"Vol", ".2">> }

\* first characters of artist names: one per range in either case, a digit, and
\* a sign
FirstChars == {"a", "E", "h", "M", "n", "T", "z", "2", "!"}
Artists == { <<c, "x">> : c \in FirstChars }

\* the album folders of the source directory, in the order readdir gives them
SourceListings ==
    { <<>>, << <<"Album">> >>, << <<"Vol", ".2">> >>,
      << <<"Album">>, <<"Album", " (1)">> >>, << <<"Album", " (1)">>, <<"Album">> >>,
      << <<"Album">>, <<"Vol", ".2">> >> }

\* the album names already present in every artist folder of the library
ExistingSets ==
    { {}, { <<"Album">> }, { <<"Album">>, <<"Album", " (1)">> }, { <<"Vol", ".2">> } }

MvIdle ==
    [pc |-> "idle", dryRun |-> FALSE, interactive |-> FALSE, sourceExists |-> TRUE,
     targetExists |-> TRUE, albums |-> <<>>, meta |-> [a \in AlbumNames |-> <<>>],
     typedChoices |-> { <<>> }, existing |-> {}, source |-> {}, ops |-> <<>>, i |-> 0,
     placed |-> {}, dirs |-> {}, backups |-> {}, moves |-> <<>>, warnings |-> <<>>,
     turns |-> <<>>,
     successCount |-> 0, failureCount |-> 0, prompts |-> 0, cancelled |-> FALSE,
     threw |-> FALSE, summary |-> FALSE, exitCode |-> -1]

----------------------------------------------------------------------------
(* dir-tree: run() and buildTree() of cli/commands/dir-tree.ts *)

\* the largest --max-depth number tried
MaxDepthOption == 3

\* maxDepth: "Infinity" is Infinity, anything else goes through parseInt
Infinity == [nan |-> FALSE, v |-> -1, inf |-> TRUE]
parseMaxDepth(val) == IF val = <<"Infinity">> THEN Infinity ELSE parseInt(val)

\* a depth test that lets one more level through
DepthReached_OneMore(depth, maxDepth) ==
    IF maxDepth = Infinity THEN FALSE
    ELSE ~maxDepth.nan /\ depth > maxDepth.v

\* depth >= maxDepth on JavaScript numbers
DepthReached(depth, maxDepth) ==
    IF maxDepth = Infinity THEN FALSE
    ELSE ~maxDepth.nan /\ depth >= maxDepth.v

\* the entries of the model, by path below the root
AllEntries ==
    { <<"file1.txt">>, <<".hidden">>, <<".hidden", "secret.txt">>,
      <<"folder1">>, <<"folder1", "file3.txt">>,
      <<"folder2">>, <<"folder2", "file4.txt">>, <<"folder2", "subfolder">>,
      <<"folder2", "subfolder", "file5.txt">>, <<"folder2", "subfolder", "deep">>,
      <<"folder2", "subfolder", "deep", "file6.txt">> }

\* names in the order readdir lists them
EntryOrder ==
    <<".hidden", "deep", "file1.txt", "file3.txt", "file4.txt", "file5.txt",
      "file6.txt", "folder1", "folder2", "secret.txt", "subfolder">>

LastName(path) == path[Len(path)]

\* entry.isDirectory()
isDirectory(path) == LastName(path) \in {".hidden", "deep", "folder1", "folder2", "subfolder"}

\* entry.name.startsWith(".")
StartsWithDot(name) == name \in {".hidden"}

\* entry.name.includes(pattern), for the patterns tried
Includes(name, pattern) ==
    CASE pattern = "folder1" -> name = "folder1"
      [] pattern = "file"    -> name \in {"file1.txt", "file3.txt", "file4.txt",
                                          "file5.txt", "file6.txt"}
      [] pattern = "sub"     -> name = "subfolder"
      [] OTHER               -> FALSE

\* the filter of buildTree: hidden names, excluded patterns, files
Keep(t, path) ==
    /\ t.showHidden \/ ~StartsWithDot(LastName(path))
    /\ ~\E pattern \in t.exclude : Includes(LastName(path), pattern)
    /\ t.showFiles \/ isDirectory(path)

\* readDirectoryWithTypes(dirPath): the entries of the directory, in order
DirEntries(t, dirPath) ==
    LET names == SelectSeq(EntryOrder, LAMBDA n : Append(dirPath, n) \in t.tree)
    IN [i \in 1..Len(names) |-> Append(dirPath, names[i])]

Built(lines, reads) == [lines |-> lines, reads |-> reads]

\* buildTree(dirPath, prefix, depth, options): the entries printed, in order,
\* and the directories read (a directory that cannot be read is tried and
\* yields nothing)
RECURSIVE buildTree(_, _, _), BuildEntries(_, _, _)
buildTree(t, dirPath, depth) ==
    IF DepthReached(depth, t.maxDepth) THEN Built(<<>>, {})
    ELSE IF dirPath \in t.unreadable THEN Built(<<>>, {dirPath})
    ELSE LET filteredEntries == SelectSeq(DirEntries(t, dirPath), LAMBDA e : Keep(t, e))
             inner == BuildEntries(t, filteredEntries, depth)
         IN Built(inner.lines, inner.reads \cup {dirPath})

\* the for-loop over filteredEntries
BuildEntries(t, entries, depth) ==
    IF entries = <<>> THEN Built(<<>>, {})
    ELSE LET entry == Head(entries)
             childLines == IF isDirectory(entry) THEN buildTree(t, entry, depth + 1)
                           ELSE Built(<<>>, {})
             rest == BuildEntries(t, Tail(entries), depth)
         IN Built(<<entry>> \o childLines.lines \o rest.lines,
                  childLines.reads \cup rest.reads)

DtIdle ==
    [pc |-> "idle", dirValid |-> TRUE, maxDepth |-> Infinity, showHidden |-> FALSE,
     showFiles |-> FALSE, exclude |-> {}, tree |-> {}, unreadable |-> {},
     lines |-> <<>>, reads |-> {}, printed |-> <<>>, empty |-> FALSE, exitCode |-> -1]

\* validateDirectory(dirPath); a directory that does not exist makes run() throw
DtStart ==
    /\ dt.pc = "start"
    /\ dt' = IF dt.dirValid THEN [dt EXCEPT !.pc = "build"]
             ELSE [dt EXCEPT !.pc = "done", !.exitCode = 1]
    /\ UNCHANGED <<fixVars, dl, mv>>

\* const treeLines = await buildTree(dirPath, "", 0, options)
DtBuild ==
    /\ dt.pc = "build"
    /\ LET built == buildTree(dt, <<>>, 0)
       IN dt' = [dt EXCEPT !.pc = "print", !.lines = built.lines, !.reads = built.reads]
    /\ UNCHANGED <<fixVars, dl, mv>>

\* "(empty directory)" or the lines, one by one
DtPrint ==
    /\ dt.pc = "print"
    /\ dt' = [dt EXCEPT !.pc = "done", !.printed = dt.lines,
                        !.empty = (dt.lines = <<>>), !.exitCode = 0]
    /\ UNCHANGED <<fixVars, dl, mv>>

\* the values of --max-depth tried
MaxDepthStrings ==
    { <<DigitChars[n + 1]>> : n \in 0..MaxDepthOption }
    \cup { <<"Infinity">>, <<"-", "1">>, <<"a">>, <<"2", "x">> }

\* the trees tried: all entries, all but the deepest directory, one folder, none
Trees ==
    { AllEntries,
      { e \in AllEntries : Len(e) <= 2 \/ e = <<"folder2", "subfolder", "file5.txt">> },
      { <<"file1.txt">>, <<"folder1">>, <<"folder1", "file3.txt">> },
      {} }

ExcludeSets == { {}, {"folder1"}, {"file"}, {"sub", "folder1"} }
UnreadableSets == { {}, { <<"folder2">> }, { <<>> } }

----------------------------------------------------------------------------
(* Initial states *)

AlbumCue  == <<"album", ".cue">>
AlbumFlac == <<"album", ".flac">>
AlbumWav  == <<"album", ".wav">>

\* a music folder R with album folders A and B; A may hold a __temp_split
\* left by an earlier run
MkFs(rootEx, rFiles, aFiles, bFiles, atEx, atFiles) ==
    [ex |-> [d \in Dirs |->
                CASE d \in {"R", "A", "B"} -> rootEx
                  [] d = "A/T"             -> rootEx /\ atEx
                  [] OTHER                 -> FALSE],
     files |-> [d \in Dirs |->
                CASE d = "R"   -> IF rootEx THEN rFiles ELSE {}
                  [] d = "A"   -> IF rootEx THEN aFiles ELSE {}
                  [] d = "B"   -> IF rootEx THEN bFiles ELSE {}
                  [] d = "A/T" -> IF rootEx /\ atEx THEN atFiles ELSE {}
                  [] OTHER     -> {}]]

\* what the folders may hold when the driver starts
FixAFiles == SUBSET {AlbumCue, AlbumFlac, AlbumWav, <<"b", ".cue">>, <<"b", ".flac">>}
FixBFiles == SUBSET {AlbumCue, AlbumWav}
FixTempFiles == { {}, {TrackName(1, EXT_FLAC)}, {AlbumCue, AlbumFlac} }

FixFilesystems ==
    { MkFs(TRUE, {}, a, b, FALSE, {}) : a \in FixAFiles, b \in FixBFiles }
    \cup { MkFs(TRUE, {}, a, b, TRUE, t) : a \in FixAFiles, b \in FixBFiles,
                                           t \in FixTempFiles }
    \cup { MkFs(FALSE, {}, {}, {}, FALSE, {}) }

InitRun ==
    /\ fs = fs0
    /\ rev \in BOOLEAN
    /\ opts \in [ignoreFailed : BOOLEAN, yes : BOOLEAN]
    /\ pc = "start"
    /\ pairs = <<>>
    /\ idx = 0
    /\ successCount = 0
    /\ failureCount = 0
    /\ exitCode = -1
    /\ summary = <<>>
    /\ prompts = 0
    /\ events = <<>>
    /\ cancelled = FALSE
    /\ threw = "none"

Init ==
    /\ fs0 \in FixFilesystems
    /\ readable = [d \in Dirs |-> TRUE]
    /\ relative \in BOOLEAN
    /\ InitRun
    /\ dl = DlIdle
    /\ mv = MvIdle
    /\ dt = DtIdle

Next ==
    \/ Start
    \/ ConfirmProcessing
    \/ LoopDone
    \/ ListingFails
    \/ ConfirmPair
    \/ Split
    \/ AskCleanup
    \/ Cleanup
    \/ Summary

Spec == Init /\ [][Next]_vars

----------------------------------------------------------------------------
(* The driver with the start and the end of every zx command as steps of
   their own *)

InitSeq ==
    /\ Init
    /\ relative = FALSE
    /\ fs0.files["B"] = {}

NextSeq ==
    \/ Start
    \/ ConfirmProcessing
    \/ LoopDone
    \/ ListingFails
    \/ ConfirmPair
    \/ InvokeTool
    \/ (Invoked /\ Split)
    \/ AskCleanup
    \/ (Invoked /\ Cleanup)
    \/ Summary

SpecSeq == InitSeq /\ [][NextSeq]_vars

----------------------------------------------------------------------------
(* The scanner alone, on folders with a wider choice of names *)

\* what folder A may hold when only the scan is examined
ScanAFiles ==
    SUBSET ({AlbumCue, <<"album", ".CUE">>, AlbumFlac, <<"album", ".FLAC">>, AlbumWav,
             <<"album", ".CUE", ".flac">>, <<"b", ".cue">>, <<"b", ".flac">>}
            \cup TrackFiles(NumTracks, "flac"))
ScanBFiles == { {}, {AlbumCue, AlbumFlac} }

ScanFilesystems ==
    { MkFs(TRUE, {}, a, b, t, {}) : a \in ScanAFiles, b \in ScanBFiles, t \in BOOLEAN }

InitScan ==
    /\ fs0 \in ScanFilesystems
    /\ readable \in { r \in [Dirs -> BOOLEAN] :
                        \A d \in Dirs \ {"R", "A", "B"} : r[d] }
    /\ relative = FALSE
    /\ InitRun
    /\ ~opts.yes
    /\ dl = DlIdle
    /\ mv = MvIdle
    /\ dt = DtIdle

SpecScan == InitScan /\ [][Start]_vars

----------------------------------------------------------------------------
(* The bash functions alone, on one album folder *)

\* what the album folder and its __temp_split may hold when a function is called
BashAFiles == SUBSET {AlbumCue, AlbumFlac, <<"b", ".flac">>, <<"notes", ".txt">>}
BashTempFiles == { {}, {TrackName(1, EXT_FLAC)}, TrackFiles(NumTracks, "flac") }

BashFilesystems ==
    { MkFs(TRUE, {}, a, {}, FALSE, {}) : a \in BashAFiles }
    \cup { MkFs(TRUE, {}, a, {}, TRUE, t) : a \in BashAFiles, t \in BashTempFiles }

InitBash ==
    /\ fs0 \in BashFilesystems
    /\ fs = fs0
    /\ readable = [d \in Dirs |-> TRUE]
    /\ relative = FALSE
    /\ rev = FALSE
    /\ opts = [ignoreFailed |-> FALSE, yes |-> FALSE]
    /\ pc = "bash"
    /\ pairs = <<CueAudioPair("A", AlbumCue, AlbumFlac)>>
    /\ idx = 1
    /\ successCount = 0
    /\ failureCount = 0
    /\ exitCode = -1
    /\ summary = <<>>
    /\ prompts = 0
    /\ events = <<>>
    /\ cancelled = FALSE
    /\ threw = "none"
    /\ dl = DlIdle
    /\ mv = MvIdle
    /\ dt = DtIdle

NextBash ==
    \/ BashSplit
    \/ BashCleanup

SpecBash == InitBash /\ [][NextBash]_vars

----------------------------------------------------------------------------
(* The download command alone *)

InitDownload ==
    /\ fs0 = MkFs(FALSE, {}, {}, {}, FALSE, {})
    /\ fs = fs0
    /\ readable = [d \in Dirs |-> TRUE]
    /\ relative = FALSE
    /\ rev = FALSE
    /\ opts = [ignoreFailed |-> FALSE, yes |-> FALSE]
    /\ pc = "idle"
    /\ pairs = <<>>
    /\ idx = 0
    /\ successCount = 0
    /\ failureCount = 0
    /\ exitCode = -1
    /\ summary = <<>>
    /\ prompts = 0
    /\ events = <<>>
    /\ cancelled = FALSE
    /\ threw = "none"
    /\ \E r \in RetryStrings, u \in BOOLEAN, path \in UrlPaths :
          dl = [DlIdle EXCEPT !.pc = "start", !.retries = parseInt(r), !.urlValid = u,
                              !.path = path]
    /\ mv = MvIdle
    /\ dt = DtIdle

NextDownload ==
    \/ DlStart
    \/ DlLoopExit
    \/ DlAttempt

SpecDownload == InitDownload /\ [][NextDownload]_vars

----------------------------------------------------------------------------
(* The move-completed command alone *)

\* the driver and the download command at rest
InitIdle ==
    /\ fs0 = MkFs(FALSE, {}, {}, {}, FALSE, {})
    /\ fs = fs0
    /\ readable = [d \in Dirs |-> TRUE]
    /\ relative = FALSE
    /\ rev = FALSE
    /\ opts = [ignoreFailed |-> FALSE, yes |-> FALSE]
    /\ pc = "idle"
    /\ pairs = <<>>
    /\ idx = 0
    /\ successCount = 0
    /\ failureCount = 0
    /\ exitCode = -1
    /\ summary = <<>>
    /\ prompts = 0
    /\ events = <<>>
    /\ cancelled = FALSE
    /\ threw = "none"

InitMove ==
    /\ InitIdle
    /\ dl = DlIdle
    /\ dt = DtIdle
    /\ \E listing \in SourceListings, existing \in ExistingSets,
          meta \in [AlbumNames -> Artists \cup { <<>> }],
          dry \in BOOLEAN, inter \in BOOLEAN, srcOk \in BOOLEAN, tgtOk \in BOOLEAN :
        /\ \A a \in AlbumNames : a \notin Range(listing) => meta[a] = <<>>
        /\ (~srcOk \/ ~tgtOk) => (listing = <<>> /\ existing = {} /\ ~dry /\ ~inter)
        /\ mv = [MvIdle EXCEPT !.pc = "start", !.dryRun = dry, !.interactive = inter,
                                !.sourceExists = srcOk, !.targetExists = tgtOk,
                                !.albums = listing, !.meta = meta,
                                !.typedChoices = IF inter /\ (\E a \in Range(listing) : meta[a] = <<>>)
                                                 THEN { <<"h", "x">>, <<"2", "x">> }
                                                 ELSE { <<>> },
                                !.existing = existing, !.source = Range(listing)]

NextMove ==
    \/ MvStart
    \/ MvConfirm
    \/ MvProcess
    \/ MvSummary

SpecMove == InitMove /\ [][NextMove]_vars

----------------------------------------------------------------------------
(* The dir-tree command alone *)

InitTree ==
    /\ InitIdle
    /\ dl = DlIdle
    /\ mv = MvIdle
    /\ \E valid \in BOOLEAN, depth \in MaxDepthStrings, hidden \in BOOLEAN,
          files \in BOOLEAN, exclude \in ExcludeSets, tree \in Trees,
          unreadable \in UnreadableSets :
        /\ ~valid => (tree = {} /\ unreadable = {})
        /\ unreadable \subseteq (tree \cup { <<>> })
        /\ dt = [DtIdle EXCEPT !.pc = "start", !.dirValid = valid,
                                !.maxDepth = parseMaxDepth(depth), !.showHidden = hidden,
                                !.showFiles = files, !.exclude = exclude, !.tree = tree,
                                !.unreadable = unreadable]

NextTree ==
    \/ DtStart
    \/ DtBuild
    \/ DtPrint

SpecTree == InitTree /\ [][NextTree]_vars

----------------------------------------------------------------------------
(* Claims about the driver *)

\* the events of processing pairs 1..n completely, in scan order
RECURSIVE FullRun(_)
FullRun(n) ==
    IF n = 0 THEN <<>>
    ELSE FullRun(n - 1) \o <<Event("confirm", n), Event("split", n), Event("cleanup", n)>>

IsPrefix(s, t) == Len(s) <= Len(t) /\ SubSeq(t, 1, Len(s)) = s

\* C1: once a pair whose processing started has failed (split or cleanup), the
\* run halts: from then on no per-pair confirmation, no split and no cleanup
\* happens, nothing is prompted and the filesystem is left alone.
C1_HaltAfterFailure ==
    [][failureCount > 0 =>
         /\ events' = events
         /\ prompts' = prompts
         /\ fs' = fs
         /\ pc' \in {"summary", "done"}]_vars

\* a pair failed while later pairs were still waiting, and the run has ended
C1_Witness ==
    /\ pc = "done"
    /\ failureCount > 0
    /\ idx < Len(pairs)

\* C2 as claimed: the exit code is non-zero if and only if a pair failed
C2_ExitIffPairFailed ==
    pc = "done" => (exitCode # 0 <=> failureCount > 0)

\* C2 amended: the exit code is non-zero if and only if a pair failed or run()
\* threw (the folder does not exist, or a pair's directory can no longer be
\* listed); no pairs, a cancelled run, and a run whose pairs were all processed
\* or skipped exit with 0.
C2_ExitCode ==
    pc = "done" =>
        /\ exitCode \in {0, 1}
        /\ exitCode # 0 <=> (failureCount > 0 \/ threw # "none")
        /\ (threw = "none" /\ Len(pairs) = 0) => exitCode = 0
        /\ cancelled => exitCode = 0
        /\ (threw = "none" /\ failureCount = 0) => exitCode = 0

\* a run that ended with a failed pair, after the summary
C2_Witness ==
    /\ pc = "done"
    /\ failureCount > 0
    /\ exitCode = 1
    /\ summary # <<>>

\* C3: with --yes nothing is ever prompted, the pairs are confirmed, split and
\* cleaned up one after the other in scan order, and a run that ends without a
\* failure (no failed pair, no exception) has done so for every pair found.
C3_AssumeYes ==
    opts.yes =>
        /\ prompts = 0
        /\ IsPrefix(events, FullRun(Len(pairs)))
        /\ (pc = "done" /\ failureCount = 0 /\ threw = "none")
              => events = FullRun(Len(pairs))

\* --yes, at least two pairs, all of them processed
C3_Witness ==
    /\ opts.yes
    /\ pc = "done"
    /\ Len(pairs) >= 2
    /\ successCount = Len(pairs)
    /\ events = FullRun(Len(pairs))

\* C4: when the global confirmation is declined the driver ends at once and
\* the filesystem is what it was: no split, no cleanup, no temp directory made.
C4_DeclineNoMutation ==
    cancelled =>
        /\ pc = "done"
        /\ exitCode = 0
        /\ fs = fs0
        /\ events = <<>>

\* the user declined while pairs were waiting
C4_Witness ==
    /\ cancelled
    /\ Len(pairs) > 0
    /\ pc = "done"

\* pair i was split and cleaned up, and both succeeded (the loop went on)
Processed(i) ==
    /\ i < idx
    /\ \E k \in 1..Len(events) : events[k] = Event("cleanup", i)

\* the directories that are not themselves named __temp_split
AlbumDirs == {"R", "A", "B"}

\* C9: an album directory that held only album.cue and album.flac holds, once
\* its pair has been split and cleaned up successfully, exactly the track
\* files of the split: no album.cue, no album.flac and no __temp_split.
C9_EndToEnd ==
    \A i \in 1..Len(pairs) :
        LET d == pairs[i].directory
        IN (/\ d \in AlbumDirs
            /\ Entries(fs0, d) = {AlbumCue, AlbumFlac}
            /\ Processed(i)
            /\ pc = "done")
           => /\ fs.files[d] = TrackFiles(NumTracks, "flac")
              /\ AlbumCue \notin Entries(fs, d)
              /\ AlbumFlac \notin Entries(fs, d)
              /\ TEMP_SPLIT \notin Entries(fs, d)

\* such a directory was processed
C9_Witness ==
    /\ pc = "done"
    /\ \E i \in 1..Len(pairs) :
          /\ pairs[i].directory \in AlbumDirs
          /\ Entries(fs0, pairs[i].directory) = {AlbumCue, AlbumFlac}
          /\ Processed(i)
          /\ Cardinality(fs.files[pairs[i].directory]) = NumTracks

----------------------------------------------------------------------------
(* Claims about the pair scanner *)

\* a name without its extension, the extension (.cue, .flac, .wav) matched
\* whatever its case
Stem(file) ==
    IF Len(file) > 0 /\ ToLowerCase(file[Len(file)]) \in {EXT_CUE, EXT_FLAC, EXT_WAV}
    THEN SubSeq(file, 1, Len(file) - 1)
    ELSE file

\* the scan reaches directory d and can list it
Listed(d) ==
    /\ fs0.ex[d] /\ readable[d]
    /\ d \in {"A", "B"} => readable["R"]
    /\ d = "A/T" => (readable["R"] /\ readable["A"])

Skipped(d) == opts.ignoreFailed /\ TEMP_SPLIT \in Entries(fs0, d)

PairsIn(d) == { i \in 1..Len(pairs) : pairs[i].directory = d }

Scanned == pc # "start" /\ threw = "none"

\* C5 as claimed: a cue file with an audio file (.flac or .wav, in any case) of
\* the same basename beside it is paired exactly once.
C5_MatchingPairFound ==
    Scanned =>
        \A d \in AlbumDirs :
            (Listed(d) /\ ~Skipped(d)) =>
                \A cue \in { c \in fs0.files[d] : isCueFile(c) } :
                    (\E a \in fs0.files[d] : isAudioFile(a) /\ Stem(a) = Stem(cue))
                    => Cardinality({ i \in PairsIn(d) : pairs[i].cueFile = cue }) = 1

\* C6 as claimed: a directory with no cue file, no audio file, or no cue and
\* audio file of equal basename yields no pair; every pair returned names a cue
\* and an audio file of its directory with equal basenames.
C6_NoSpuriousPair ==
    Scanned =>
        /\ \A d \in Dirs :
              (~\E c, a \in fs0.files[d] :
                    isCueFile(c) /\ isAudioFile(a) /\ Stem(c) = Stem(a))
              => PairsIn(d) = {}
        /\ \A i \in 1..Len(pairs) :
              /\ pairs[i].cueFile \in fs0.files[pairs[i].directory]
              /\ pairs[i].audioFile \in fs0.files[pairs[i].directory]
              /\ isCueFile(pairs[i].cueFile)
              /\ isAudioFile(pairs[i].audioFile)
              /\ Stem(pairs[i].cueFile) = Stem(pairs[i].audioFile)

C8_AlreadySplitSkipped ==
    Scanned =>
        \A d \in Dirs :
            (/\ {AlbumCue, AlbumFlac} \subseteq fs0.files[d]
             /\ Cardinality(fs0.files[d] \cap TrackFiles(NumTracks, "flac")) >= 2)
            => PairsIn(d) = {}


----------------------------------------------------------------------------
(* Claims about download *)

\* the attempts whose failure is the endpoint's doing
EndpointFailures == {"neterror", "http404", "http500"}

\* a finished run with retries = n >= 0 in which every attempt met a failing
\* endpoint
AllAttemptsFailed ==
    /\ dl.pc = "done"
    /\ dl.urlValid
    /\ ~dl.retries.nan
    /\ dl.retries.v >= 0
    /\ dl.log # <<>>
    /\ \A i \in 1..Len(dl.log) : dl.log[i] \in EndpointFailures

CarriedParams(ps) ==
    LET stars == { i \in 1..Len(ps) : ps[i].form = "star" }
    IN IF stars # {} THEN { ps[i] : i \in stars } ELSE { ps[i] : i \in 1..Len(ps) }

\* the names a parameter's value stands for: as written, or percent-decoded
NamesOf(p) ==
    {p.value} \cup (IF DecodeThrows(p.value) THEN {} ELSE {decodeURIComponent(p.value)})

\* C11 as claimed: a saved file is named after the Content-Disposition header
\* when the header carries a file name, filename*= before filename=, whatever
\* the URL path; the basename of the URL path names it only when the header
\* carries none.
C11_NameFromHeader ==
    dl.written =>
        IF CarriedParams(dl.resp.params) # {}
        THEN \E p \in CarriedParams(dl.resp.params) : dl.saved \in NamesOf(p)
        ELSE dl.saved = fallbackName(dl.path)

\* C12 as claimed: on an input error (a folder that does not exist for
\* fix-unsplit-cue, an invalid URL for download) the command exits non-zero
\* and attempts nothing: no directory is created, no request is sent, nothing
\* is retried, and no scan or split is started.
C12_InputErrorNoWork ==
    /\ ~dl.urlValid =>
          /\ ~dl.created
          /\ dl.requests = 0
          /\ dl.calls <= 1
          /\ dl.delays = <<>>
          /\ dl.pc = "done" => dl.exitCode # 0
    /\ (pc = "done" /\ ~existsDir(fs0, FolderPath)) =>
          /\ exitCode # 0
          /\ pairs = <<>>
          /\ events = <<>>
          /\ fs = fs0

----------------------------------------------------------------------------
(* Claims about move-completed *)

\* the seven buckets and the letters of each
BucketLetters ==
    [b \in {"A-D", "E-F", "G-I", "J-M", "N-Q", "R-T", "U-Z"} |->
        CASE b = "A-D" -> {"A", "B", "C", "D", "a", "b", "c", "d"}
          [] b = "E-F" -> {"E", "F", "e", "f"}
          [] b = "G-I" -> {"G", "H", "I", "g", "h", "i"}
          [] b = "J-M" -> {"J", "K", "L", "M", "j", "k", "l", "m"}
          [] b = "N-Q" -> {"N", "O", "P", "Q", "n", "o", "p", "q"}
          [] b = "R-T" -> {"R", "S", "T", "r", "s", "t"}
          [] b = "U-Z" -> {"U", "V", "W", "X", "Y", "Z", "u", "v", "w", "x", "y", "z"}]

Buckets == DOMAIN BucketLetters

Letters == UNION { BucketLetters[b] : b \in Buckets }

\* every letter, in either case, leads to the bucket that holds it
EveryLetterBucketed ==
    \A c \in Letters :
        \E b \in Buckets :
            /\ c \in BucketLetters[b]
            /\ getTargetDirectory(<<c, "x">>) = << <<b>>, <<c, "x">> >>

\* the operations planned so far, and the albums moved so far with the
\* operation each belongs to
PlannedOps == { mv.ops[i] : i \in 1..Len(mv.ops) }
OpOfMove(k) == CHOOSE op \in PlannedOps : op.albumName = mv.moves[k].album

NameWithCounter(name, k) == name \o <<CounterSuffix[k]>>

\* the album name with " (k)" put before the part that starts at its last dot
\* (at its end when it has no dot)
StemWithCounter(name, k) ==
    IF Len(name) > 1 /\ name[Len(name)] = ".2"
    THEN SubSeq(name, 1, Len(name) - 1) \o <<CounterSuffix[k]>> \o <<name[Len(name)]>>
    ELSE name \o <<CounterSuffix[k]>>

C15_DryRunNoChange ==
    mv.dryRun =>
        /\ mv.source = Range(mv.albums)
        /\ mv.placed = {}
        /\ mv.dirs = {}
        /\ mv.backups = {}
        /\ mv.moves = <<>>

\* a dry run over two albums, one of which would have met a name collision,
\* went through the whole loop
C15_Witness ==
    /\ mv.dryRun
    /\ mv.pc = "done"
    /\ mv.summary
    /\ mv.successCount = 2
    /\ \E i \in 1..Len(mv.ops) : mv.ops[i].albumName \in mv.existing

----------------------------------------------------------------------------
(* Claims about dir-tree *)

\* the directories above an entry, the root (<<>>) included
Ancestors(path) == { SubSeq(path, 1, n) : n \in 0..(Len(path) - 1) }

\* an entry the filter lets through, in directories the filter lets through and
\* that can be read
Shown(t, path) ==
    /\ path \in t.tree
    /\ Keep(t, path)
    /\ \A a \in Ancestors(path) : a \notin t.unreadable /\ (a # <<>> => Keep(t, a))

\* the number given to --max-depth, when it is one
DepthGiven == ~dt.maxDepth.nan /\ dt.maxDepth # Infinity

\* C16: with --max-depth d the lines printed are exactly the entries the filter
\* lets through whose depth below the root is at most d (direct children have
\* depth 1), each once; no directory at depth d or deeper is read; with d = 1
\* only direct children of the root are printed.
C16_MaxDepth ==
    (dt.pc = "done" /\ dt.dirValid /\ DepthGiven) =>
        /\ Range(dt.printed) = { e \in dt.tree : Shown(dt, e) /\ Len(e) <= dt.maxDepth.v }
        /\ Len(dt.printed) = Cardinality(Range(dt.printed))
        /\ \A r \in dt.reads : Len(r) < dt.maxDepth.v
        /\ dt.maxDepth.v = 1 => \A i \in 1..Len(dt.printed) : Len(dt.printed[i]) = 1

\* --max-depth 2 on the full tree with files shown: entries of depth 1 and 2 are
\* printed, those of depth 3 and 4 exist and are not
C16_Witness ==
    /\ dt.pc = "done"
    /\ dt.maxDepth = Num(2)
    /\ dt.tree = AllEntries
    /\ dt.showFiles
    /\ <<"folder2", "subfolder">> \in Range(dt.printed)
    /\ <<"folder2", "subfolder", "file5.txt">> \notin Range(dt.printed)

----------------------------------------------------------------------------
(* Claims about the driver's summary, skipped pairs, cleanup and split failure *)

\* C17 as claimed: every run of the driver that has ended has emitted a summary
\* (the counts of processed, failed and skipped pairs).
C17_SummaryAlways ==
    pc = "done" => Len(summary) = 1

Happened(op, i) == \E k \in 1..Len(events) : events[k] = Event(op, i)
Times(op, i) == Cardinality({ k \in 1..Len(events) : events[k] = Event(op, i) })

\* pair i was shown and declined: the loop has gone past it without a split
Declined(i) == Happened("confirm", i) /\ ~Happened("split", i) /\ idx > i

\* the step in which the per-pair question is answered with no
DeclineStep ==
    /\ pc = "loop"
    /\ events' = Append(events, Event("confirm", idx))
    /\ pc' # "split"

\* the pairs the loop has finished by splitting them
SplitDone == { i \in 1..Len(pairs) : Happened("split", i) /\ (idx > i \/ pc \in {"summary", "done"}) }

\* C18, state part: a declined pair is never split nor cleaned, the two counters
\* count only the pairs that were split, and a loop that ends without a failure
\* has put the question for every pair of the list.
C18_DeclinedState ==
    /\ \A i \in 1..Len(pairs) : Declined(i) => ~Happened("cleanup", i)
    /\ pc \in {"loop", "summary"} => successCount + failureCount = Cardinality(SplitDone)
    /\ (pc = "summary" /\ failureCount = 0) =>
           \A i \in 1..Len(pairs) : Happened("confirm", i)

\* C18: declining the per-pair confirmation changes no file and neither counter,
\* and the driver goes on to the next pair of the list; the declined pair is
\* never split nor cleaned and is counted neither as success nor as failure.
C18_DeclineSkipsPair ==
    /\ []C18_DeclinedState
    /\ [][DeclineStep =>
            /\ fs' = fs
            /\ successCount' = successCount
            /\ failureCount' = failureCount
            /\ pc' = "loop"
            /\ idx' = idx + 1]_vars

\* the first of two pairs was declined and the second was split
C18_Witness ==
    /\ Len(pairs) = 2
    /\ Declined(1)
    /\ Happened("split", 2)
    /\ pc = "done"
    /\ Len(summary) = 1
    /\ summary[1].success = 1

\* the original cue and audio file of the pair being cleaned up
Originals == {pairs[idx].cueFile, find_audio_file(fs, pairs[idx].directory)}

\* the files the mv commands of this cleanup have to move
ToMove == IF fs.ex[TempOf(pairs[idx].directory)]
          THEN Range(MoveList(fs, TempOf(pairs[idx].directory)))
          ELSE {}

\* an original is gone after the step
OriginalDeleted ==
    \E o \in Originals : /\ o \in fs.files[pairs[idx].directory]
                         /\ o \notin fs'.files[pairs[idx].directory]

\* a file to move is, after the step, still in __temp_split
MoveFailed ==
    /\ fs'.ex[TempOf(pairs[idx].directory)]
    /\ \E n \in ToMove : n \in fs'.files[TempOf(pairs[idx].directory)]

\* C19: in a cleanup step, an original cue or audio file is deleted only if
\* every file of __temp_split has been moved into the pair's directory, and no
\* original is deleted when a move failed.
C19_DeleteAfterMoves ==
    [][pc = "cleanup" =>
         /\ OriginalDeleted =>
              \A n \in ToMove \ Originals : n \in fs'.files[pairs[idx].directory]
         /\ MoveFailed => ~OriginalDeleted /\ failureCount' = failureCount + 1]_vars

\* a cleanup in which a move failed: files are left in __temp_split, the
\* originals are still there, and the pair is counted as failed
C19_Witness ==
    /\ pc = "done"
    /\ events # <<>>
    /\ events[Len(events)] = Event("cleanup", idx)
    /\ failureCount = 1
    /\ fs.ex[TempOf(pairs[idx].directory)]
    /\ fs.files[TempOf(pairs[idx].directory)] # {}
    /\ pairs[idx].cueFile \in fs.files[pairs[idx].directory]
    /\ \E n \in fs.files[pairs[idx].directory] : n \notin fs0.files[pairs[idx].directory]

\* the status of split_cue_audio for the current pair under an outcome of the tools
SplitStatus(outcome) ==
    split_cue_audio(fs, pairs[idx].directory, pairs[idx].cueFile, outcome, ZxErrexit).status

\* the last split ended the loop
SplitFailed ==
    /\ pc \in {"summary", "done"}
    /\ events # <<>>
    /\ events[Len(events)] = Event("split", idx)

\* C20, state part: a missing tool and a failing splitter give a non-zero
\* status; after a failed split the pair is counted as failed, has no cleanup,
\* and was split once.
C20_FailedState ==
    /\ pc = "split" => SplitStatus("nodeps") # 0 /\ SplitStatus("splitfail") # 0
    /\ SplitFailed =>
          /\ failureCount = 1
          /\ ~Happened("cleanup", idx)
          /\ Times("split", idx) = 1
          /\ pc = "done" => (summary[1].failure = 1 /\ exitCode = 1)

\* C20: a failed split step makes the pair a failure: failureCount goes up by
\* one, successCount does not, no cleanup question is put and no cleanup or
\* second split is run for the pair.
C20_SplitFailureIsFailure ==
    /\ []C20_FailedState
    /\ [][(pc = "split" /\ pc' # "askCleanup") =>
            /\ failureCount' = failureCount + 1
            /\ successCount' = successCount
            /\ prompts' = prompts
            /\ pc' = "summary"]_vars

\* a split that failed after the temp directory was made: the run has ended
\* with the pair counted as failed and the originals in place
C20_Witness ==
    /\ SplitFailed
    /\ pc = "done"
    /\ failureCount = 1
    /\ fs.ex[TempOf(pairs[idx].directory)]
    /\ ~fs0.ex[TempOf(pairs[idx].directory)]
    /\ pairs[idx].cueFile \in fs.files[pairs[idx].directory]

----------------------------------------------------------------------------
(* Claims about cleanup_temp_split and split_cue_audio called on a folder *)

\* the directory, the cue file and the audio file of the pair at hand
PairDir == pairs[idx].directory
PairCue == pairs[idx].cueFile
PairAudio == pairs[idx].audioFile

\* a call of cleanup_temp_split is the step taken
CleanupStep == events' = Append(events, Event("cleanup", idx))

\* the files waiting in __temp_split before the step
Waiting == IF fs.ex[PairDir] /\ fs.ex[TempOf(PairDir)] THEN fs.files[TempOf(PairDir)] ELSE {}

\* C21 as claimed: when the original cue or the original audio file is already
\* missing as cleanup_temp_split is called (and every mv succeeds), the call
\* still moves the files of __temp_split into the directory, removes
\* __temp_split and returns 0.
C21_MissingOriginalNotFatal ==
    [][(/\ CleanupStep
        /\ fs.ex[PairDir]
        /\ fs.ex[TempOf(PairDir)]
        /\ (PairCue \notin fs.files[PairDir] \/ PairAudio \notin fs.files[PairDir])
        /\ Waiting \cap fs'.files[TempOf(PairDir)] = {})
       => /\ exitCode' = 0
          /\ ~fs'.ex[TempOf(PairDir)]
          /\ Waiting \subseteq fs'.files[PairDir]]_vars

\* every name a split track file can have
AllTrackFiles == { TrackName(i, ext) : i \in 1..Len(TrackStems), ext \in {EXT_FLAC, EXT_WAV} }

\* C26 as claimed: a call of cleanup_temp_split that deletes the original audio
\* file leaves at least one split track file in the pair's directory.
C26_NoAudioLost ==
    [][(/\ CleanupStep
        /\ PairAudio \in fs.files[PairDir]
        /\ PairAudio \notin fs'.files[PairDir])
       => \E t \in AllTrackFiles : t \in fs'.files[PairDir]]_vars

\* the call before this one was a cleanup_temp_split that returned 0
CleanedUp ==
    /\ events # <<>>
    /\ events[Len(events)] = Event("cleanup", idx)
    /\ exitCode = 0

\* C27 as claimed: a second call of cleanup_temp_split for the same cue path,
\* right after a call that returned 0, changes no file.
C27_CleanupIdempotent ==
    [][(CleanupStep /\ CleanedUp) => fs' = fs]_vars

----------------------------------------------------------------------------
(* Claims about unreadable directories in the scan *)

\* the pairs of the result that lie in directory d, in the order returned
PairsOfDir(d) == SelectSeq(pairs, LAMBDA p : p.directory = d)

\* C22: a directory that cannot be read is skipped and the scan goes on: every
\* directory that is read contributes exactly the pairs its own listing gives,
\* a directory that is not read contributes none, and an unreadable root is
\* logged once and gives an empty result.
C22_UnreadableSkipped ==
    Scanned =>
        /\ \A d \in Dirs : Listed(d) =>
               PairsOfDir(d) = findCueAudioPairsInDirectory(fs0, d, opts)
        /\ \A d \in Dirs : ~Listed(d) => PairsOfDir(d) = <<>>
        /\ ~readable[FolderPath] =>
               (pairs = <<>> /\ LoggedScanErrors(fs0, FolderPath) = 1)

\* folder A holds a matching pair and cannot be read; the pair of folder B is
\* returned all the same
C22_Witness ==
    /\ Scanned
    /\ readable["R"] /\ ~readable["A"] /\ readable["B"]
    /\ {AlbumCue, AlbumFlac} \subseteq fs0.files["A"]
    /\ PairsOfDir("B") # <<>>
    /\ PairsOfDir("A") = <<>>

----------------------------------------------------------------------------
(* Claims about sequential execution *)

\* the events of a kind among the first n events
CountUpTo(n, ops) == Cardinality({ k \in 1..n : events[k].op \in ops })

\* the commands started and not yet ended after the first n events
InProgress(n) == CountUpTo(n, {"begin"}) - CountUpTo(n, {"split", "cleanup"})

\* C23: at most one external command (split or cleanup) is in progress at any
\* time; the events of the pairs follow the order of the list; and the
\* question for a pair is put only when every command started before has ended.
C23_Sequential ==
    /\ \A n \in 0..Len(events) : InProgress(n) \in {0, 1}
    /\ \A a, b \in 1..Len(events) : a < b => events[a].i <= events[b].i
    /\ \A k \in 1..Len(events) :
           events[k].op = "confirm" =>
               /\ InProgress(k - 1) = 0
               /\ \A j \in 1..(k - 1) : events[j].i < events[k].i
    /\ pc \in {"loop", "askCleanup", "summary", "done"} => InProgress(Len(events)) = 0

\* two pairs, each split and cleaned up in turn
C23_Witness ==
    /\ pc = "done"
    /\ Len(pairs) = 2
    /\ events = << Event("confirm", 1), Event("begin", 1), Event("split", 1),
                   Event("begin", 1), Event("cleanup", 1),
                   Event("confirm", 2), Event("begin", 2), Event("split", 2),
                   Event("begin", 2), Event("cleanup", 2) >>

----------------------------------------------------------------------------
(* Claims about the loop of move-completed *)

\* the turns of the loop whose move had one of the given outcomes
TurnsWith(outcomes) == { k \in 1..Len(mv.turns) : mv.turns[k].move \in outcomes }

\* C24: a failed backup copy is logged as a warning and the move of the album
\* is attempted all the same; an album is counted as failed exactly when its
\* move failed (or its folder was gone), whatever became of the backup.
C24_BackupBestEffort ==
    /\ \A k \in 1..Len(mv.turns) :
           mv.turns[k].backup = "failed" =>
               /\ mv.turns[k].move \in MoveOutcomes
               /\ \E w \in 1..Len(mv.warnings) :
                      mv.warnings[w] = [what |-> "backup", album |-> mv.turns[k].album]
    /\ mv.failureCount = Cardinality(TurnsWith({"gone", "mkdirfailed", "renamefailed"}))
    /\ mv.successCount = Cardinality(TurnsWith({"ok", "skipped"}))

\* the backup of an album failed, the album was moved and counted as a
\* success, and the run ended with exit code 0
C24_Witness ==
    /\ mv.pc = "done"
    /\ mv.exitCode = 0
    /\ mv.successCount > 0
    /\ \E k \in 1..Len(mv.turns) :
           /\ mv.turns[k].backup = "failed"
           /\ mv.turns[k].move = "ok"
           /\ \E m \in 1..Len(mv.moves) : mv.moves[m].album = mv.turns[k].album

\* C30: the loop is not fail-fast: it takes up every planned operation once,
\* in the order of the plan, whatever the earlier ones came to; when the
\* summary is displayed successCount + failureCount is the number of planned
\* operations and the exit code is 1 exactly when failureCount > 0.
C30_NotFailFast ==
    /\ mv.pc = "loop" =>
           /\ Len(mv.turns) = mv.i - 1
           /\ \A k \in 1..Len(mv.turns) : mv.turns[k].album = mv.ops[k].albumName
    /\ mv.summary =>
           /\ Len(mv.turns) = Len(mv.ops)
           /\ \A k \in 1..Len(mv.ops) : mv.turns[k].album = mv.ops[k].albumName
           /\ \A k \in 1..Len(mv.ops) : ~mv.dryRun => mv.turns[k].move # "skipped"
           /\ mv.successCount + mv.failureCount = Len(mv.ops)
           /\ (mv.exitCode = 1) <=> (mv.failureCount > 0)

\* the first of two moves failed and the second was made all the same
C30_Witness ==
    /\ mv.summary
    /\ Len(mv.ops) = 2
    /\ mv.turns[1].move = "renamefailed"
    /\ mv.turns[2].move = "ok"
    /\ mv.failureCount = 1
    /\ mv.successCount = 1
    /\ mv.exitCode = 1

----------------------------------------------------------------------------
(* Claims about the audio file the bash functions work on *)

\* C25 as claimed: the audio file that split_cue_audio splits and that
\* cleanup_temp_split deletes is the audioFile of the pair being processed.
C25_SplitsPairAudio ==
    pc \in {"split", "cleanup"} => find_audio_file(fs, PairDir) = PairAudio

----------------------------------------------------------------------------
(* Claims about the end of the download command *)

\* C28 as claimed: the download command ends with exit code 0 only after a 2xx
\* response was received and written to disk, and whatever the retries option
\* is, a command that got past mkdir has called fetchOnce at least once when
\* it ends.
C28_ExitZeroOnlyAfterWrite ==
    dl.pc = "done" =>
        /\ dl.exitCode = 0 =>
              (dl.written /\ dl.log # <<>> /\ dl.log[Len(dl.log)] = "ok")
        /\ dl.calls = 0 => dl.exitCode = 1

\* C29 as claimed: the name under which the download is saved has no path
\* separator and no ".." component, so the file lies directly in options.dest.
C29_SavedInsideDest ==
    dl.written => \A i \in 1..Len(dl.saved) : dl.saved[i] \notin {"/", ".."}

====
